---- MODULE Spec2Model ----
(***************************************************************************)
(* Registration intake and status-transition workflow of the BMTS events   *)
(* server (src/server/index.js).  The file holds two variants of the       *)
(* server: the first variant (lines 1-504) and the extended variant        *)
(* (lines 506-1288).  Spec models the extended variant, SpecV1 the first.  *)
(*                                                                         *)
(* Text values (form fields, file names) are sequences of one-character    *)
(* strings, so that trim, toLowerCase, endsWith and extname are computed.  *)
(* A request body is a function from the names of the fields it carries to *)
(* their values; a field the request does not carry is outside its DOMAIN. *)
(***************************************************************************)
EXTENDS Integers, Sequences, FiniteSets, TLC

\* Bound: how many uploads (fresh ids, stored files) a run may perform.
MaxUploads == 1

\* limits.fileSize of the upload middleware: 10 * 1024 * 1024.
FileSizeLimit == 10485760

----------------------------------------------------------------------------
(* Text helpers *)

RECURSIVE trimStart(_)
trimStart(s) ==
  IF s # <<>> /\ Head(s) = " " THEN trimStart(Tail(s)) ELSE s

RECURSIVE trimEnd(_)
trimEnd(s) ==
  IF s # <<>> /\ s[Len(s)] = " " THEN trimEnd(SubSeq(s, 1, Len(s) - 1)) ELSE s

\* String.prototype.trim
trim(s) == trimEnd(trimStart(s))

lowerChar(c) ==
  CASE c = "P" -> "p"
    [] c = "D" -> "d"
    [] c = "F" -> "f"
    [] c = "N" -> "n"
    [] c = "G" -> "g"
    [] c = "J" -> "j"
    [] c = "E" -> "e"
    [] c = "X" -> "x"
    [] c = "A" -> "a"
    [] OTHER -> c

\* String.prototype.toLowerCase
toLowerCase(s) == [i \in 1..Len(s) |-> lowerChar(s[i])]

\* String.prototype.endsWith
endsWith(s, suf) ==
  /\ Len(suf) <= Len(s)
  /\ SubSeq(s, Len(s) - Len(suf) + 1, Len(s)) = suf

\* sanitize-filename: characters that are illegal in a file name are dropped.
IllegalChars == {"/", "?", "<", ">", "\\", ":", "*", "|", "\""}
sanitize(s) == SelectSeq(s, LAMBDA c : c \notin IllegalChars)

\* Index of the last "." of s, 0 when there is none.
lastDot(s) ==
  LET dots == {i \in 1..Len(s) : s[i] = "."}
  IN IF dots = {} THEN 0 ELSE CHOOSE i \in dots : \A j \in dots : j <= i

\* path.extname: from the last "." to the end; "" when there is no "." or the
\* only "." is the first character.
extname(s) ==
  LET d == lastDot(s)
  IN IF d <= 1 THEN <<>> ELSE SubSeq(s, d, Len(s))

----------------------------------------------------------------------------
(* The status sets of the two variants of the status handler *)

\* Mutant of allowed: one more status is let through.
allowedWithBogus ==
  {"Pending Verification", "Payment Verified", "Payment Rejected",
   "Awaiting Resubmission", "Cancelled", "Waitlisted", "Confirmed", "Bogus"}

allowed ==
  {"Pending Verification", "Payment Verified", "Payment Rejected",
   "Awaiting Resubmission", "Cancelled", "Waitlisted", "Confirmed"}

allowedV1 ==
  {"Pending Verification", "Payment Verified", "Payment Rejected",
   "Awaiting Resubmission"}

----------------------------------------------------------------------------
(* Intake validation *)

required ==
  <<"middle_temple_member", "bmts_member_interest", "title", "first_name",
    "last_name", "telephone", "email", "practice_track", "payment_method",
    "consent">>

RequiredSet == {required[i] : i \in 1..Len(required)}

\* Mutant of fieldMissing: the value is not trimmed before the test.
fieldMissingNoTrim(body, k) ==
  \/ k \notin DOMAIN body
  \/ body[k] = <<>>

\* !body[k] || String(body[k]).trim() === ''
fieldMissing(body, k) ==
  \/ k \notin DOMAIN body
  \/ body[k] = <<>>
  \/ trim(body[k]) = <<>>

\* The loop over the required fields: TRUE when it returns the rejection.
requiredRejected(body) ==
  \E i \in 1..Len(required) : fieldMissing(body, required[i])

\* body.k || ''
orEmpty(body, k) ==
  IF k \in DOMAIN body /\ body[k] # <<>> THEN body[k] ELSE <<>>

allowedMime == {"application/pdf", "image/jpeg", "image/png"}

isValidFile(mimetype, filename) ==
  LET ext == toLowerCase(filename)
  IN /\ mimetype \in allowedMime
     /\ \/ endsWith(ext, <<".", "p", "d", "f">>)
        \/ endsWith(ext, <<".", "j", "p", "g">>)
        \/ endsWith(ext, <<".", "j", "p", "e", "g">>)
        \/ endsWith(ext, <<".", "p", "n", "g">>)

\* storage.filename: <id><lower-cased extension of the sanitized name>,
\* extension ".bin" when the sanitized name has none.  A stored name is the
\* pair of the id and the extension.
storageFilename(id, originalname) ==
  LET safe == sanitize(IF originalname = <<>>
                       THEN <<"p", "a", "y", "m", "e", "n", "t", "-",
                              "p", "r", "o", "o", "f">>
                       ELSE originalname)
      ext  == IF extname(safe) = <<>> THEN <<".", "b", "i", "n">>
              ELSE extname(safe)
  IN <<id, toLowerCase(ext)>>

----------------------------------------------------------------------------
(* Notifier *)

\* Mutant of sendEmail: a failure of sendMail is thrown on to the caller.
sendEmailRethrows(transporter, ok, to, subject, text) ==
  [threw |-> transporter /\ ~ok,
   log   |-> <<[to |-> to, subject |-> subject, text |-> text,
                delivered |-> transporter /\ ok]>>]

\* Mutant of sendEmail: a missing transporter is an error thrown to the caller.
sendEmailRequiresTransport(transporter, ok, to, subject, text) ==
  [threw |-> ~transporter,
   log   |-> <<[to |-> to, subject |-> subject, text |-> text,
                delivered |-> transporter /\ ok]>>]

\* sendEmail: without a transporter nothing is sent; with one, sendMail either
\* succeeds (ok) or fails, and the failure is caught and logged.  The result
\* says whether the call threw and lists the dispatch it made.
sendEmail(transporter, ok, to, subject, text) ==
  [threw |-> FALSE,
   log   |-> <<[to |-> to, subject |-> subject, text |-> text,
                delivered |-> transporter /\ ok]>>]

\* [...].filter(line => line !== '')
filterLines(lines) == SelectSeq(lines, LAMBDA l : l # <<>>)

\* Mutant of optLine: the line is there whatever the value.
optLineAlways(label, v) == <<label, v>>

\* A template line that is present only when v is non-empty.
optLine(label, v) == IF v # <<>> THEN <<label, v>> ELSE <<>>

----------------------------------------------------------------------------
(* Templates of the extended variant.  A subject is its sequence of words; a *)
(* text keeps the lines that interpolate a value, as <<label, value>>.       *)

OwnerEmail == <<"o", "w", "n", "e", "r">>

generateRegistrationConfirmationEmail(registration) ==
  [subject |-> <<"Registration", "Received", "Bahamas", "Middle", "Temple",
                 "Week", "2026">>,
   text |-> filterLines(<<
     <<"Dear ", registration.title, registration.last_name>>,
     <<"Registration ID: ", registration.id>>,
     <<"Name: ", registration.title, registration.first_name,
       registration.last_name>>,
     <<"Practice Track: ", registration.practice_track>>,
     <<"Payment Method: ", registration.payment_method>>,
     optLine("Firm/Company: ", registration.company),
     <<"Email: ", registration.email>>,
     <<"Telephone: ", registration.telephone>>,
     <<"Please retain this email and your Registration ID ",
       registration.id>> >>)]

generatePaymentVerifiedEmail(registration) ==
  [subject |-> <<"Registration", "Confirmed", "Bahamas", "Middle", "Temple",
                 "Week", "2026">>,
   text |-> filterLines(<<
     <<"Dear ", registration.title, registration.last_name>>,
     <<"Registration ID: ", registration.id>>,
     <<"Name: ", registration.title, registration.first_name,
       registration.last_name>>,
     <<"Practice Track: ", registration.practice_track>>,
     <<"Payment Status: VERIFIED AND CONFIRMED">>,
     optLine("Firm/Company: ", registration.company) >>)]

generatePaymentRejectedEmail(registration, adminNotes) ==
  [subject |-> <<"Action", "Required", "Registration", "Payment",
                 "Verification">>,
   text |-> filterLines(<<
     <<"Dear ", registration.title, registration.last_name>>,
     IF adminNotes # "" THEN <<"ADDITIONAL NOTES FROM OUR TEAM:">> ELSE <<>>,
     IF adminNotes # "" THEN <<"note", adminNotes>> ELSE <<>>,
     <<"Registration ID: ", registration.id>>,
     <<"Name: ", registration.title, registration.first_name,
       registration.last_name>>,
     <<"Practice Track: ", registration.practice_track>>,
     <<"Payment Method: ", registration.payment_method>>,
     <<"Current Status: Payment Verification Required">>,
     <<"1. Your Registration ID: ", registration.id>> >>)]

generateAwaitingResubmissionEmail(registration, adminNotes) ==
  [subject |-> <<"Payment", "Resubmission", "Required", "Bahamas", "Middle",
                 "Temple", "Week", "2026">>,
   text |-> filterLines(<<
     <<"Dear ", registration.title, registration.last_name>>,
     IF adminNotes # "" THEN <<"SPECIFIC REQUIREMENTS:">> ELSE <<>>,
     IF adminNotes # "" THEN <<"note", adminNotes>> ELSE <<>>,
     <<"Registration ID: ", registration.id>>,
     <<"Name: ", registration.title, registration.first_name,
       registration.last_name>>,
     <<"Practice Track: ", registration.practice_track>>,
     <<"Payment Method: ", registration.payment_method>>,
     <<"Current Status: Awaiting Payment Resubmission">>,
     <<"1. Your Registration ID: ", registration.id>> >>)]

generateAdminNotificationEmail(registration) ==
  [subject |-> <<"New", "Registration:", registration.first_name,
                 registration.last_name, "Bahamas", "Middle", "Temple",
                 "Week", "2026">>,
   text |-> filterLines(<<
     <<"Registration ID: ", registration.id>>,
     <<"Name: ", registration.title, registration.first_name,
       registration.last_name>>,
     <<"Email: ", registration.email>>,
     <<"Telephone: ", registration.telephone>>,
     optLine("Company: ", registration.company),
     optLine("City: ", registration.city),
     optLine("PO Box: ", registration.po_box),
     <<"Practice Track: ", registration.practice_track>>,
     <<"Payment Method: ", registration.payment_method>>,
     <<"Middle Temple Member: ", registration.middle_temple_member>>,
     <<"BMTS Member Interest: ", registration.bmts_member_interest>>,
     <<"Current Status: ", registration.status>>,
     <<"Payment File: ", registration.payment_file_name>> >>)]

generateStatusChangeNotificationEmail(registration, newStatus, oldStatus, adminNotes) ==
  [subject |-> <<"Registration", "Status", "Update", "Bahamas", "Middle",
                 "Temple", "Week", "2026">>,
   text |-> filterLines(<<
     <<"Dear ", registration.title, registration.last_name>>,
     <<"Registration ID: ", registration.id>>,
     <<"Name: ", registration.title, registration.first_name,
       registration.last_name>>,
     <<"Previous Status: ", oldStatus>>,
     <<"Current Status: ", newStatus>>,
     IF adminNotes # "" THEN <<"ADDITIONAL INFORMATION:">> ELSE <<>>,
     IF adminNotes # "" THEN <<"note", adminNotes>> ELSE <<>>,
     <<"Practice Track: ", registration.practice_track>>,
     <<"Payment Method: ", registration.payment_method>>,
     optLine("Firm/Company: ", registration.company) >>)]

----------------------------------------------------------------------------
(* State *)

VARIABLES
  rows,         \* table registrations: id -> row
  files,        \* names of the files in UPLOAD_DIR
  now,          \* the clock read by new Date()
  transporter,  \* TRUE when createTransport() returned a transport
  resp,         \* the response to the last request
  mails,        \* the sendEmail calls of the last request, in order
  inflight,     \* the requests being served: where each handler stands
  history       \* what the handlers did to table and relay, in order

vars == <<rows, files, now, transporter, resp, mails, inflight, history>>

\* The requests that may be in service at once.
MaxInflight == 3

Procs == 1..MaxInflight

\* A handler that has not been entered.
Idle == [pc |-> "idle", id |-> 0, row |-> <<>>, ok1 |-> TRUE, sent |-> <<>>]

\* The persistent part of the state, as the handlers read and return it.
Db == [rows |-> rows, files |-> files, now |-> now]

\* The ids in use: every row's, and every stored file's.
usedIds(db) == DOMAIN db.rows \cup {f[1] : f \in db.files}

\* Mutant of uuidv4: the same id at every call.
uuidv4Fixed(db) == 1

\* uuidv4(): an id no file and no row uses yet.
uuidv4(db) ==
  CHOOSE i \in 1..(Cardinality(usedIds(db)) + 1) : i \notin usedIds(db)

NoMails == <<>>

\* The response the client reads: status code and JSON (or text) body.
Response(op, code, body) == [op |-> op, code |-> code, body |-> body]

----------------------------------------------------------------------------
(* Upload middleware: upload.single('payment_proof') *)

\* Mutant of upload: a file of exactly the limit is refused as well.
uploadStrictLimit(file, id) ==
  IF ~file.present THEN [outcome |-> "nofile", stored |-> {}]
  ELSE IF ~isValidFile(file.mimetype, file.originalname)
    THEN [outcome |-> "badtype", stored |-> {}]
  ELSE IF file.size >= FileSizeLimit
    THEN [outcome |-> "toolarge", stored |-> {}]
  ELSE [outcome |-> "stored",
        stored  |-> {storageFilename(id, file.originalname)}]

\* What multer leaves for the handler: the outcome, the stored file name and
\* the id stashed in req._reg_id.
upload(file, id) ==
  IF ~file.present THEN [outcome |-> "nofile", stored |-> {}]
  ELSE IF ~isValidFile(file.mimetype, file.originalname)
    THEN [outcome |-> "badtype", stored |-> {}]
  ELSE IF file.size > FileSizeLimit
    THEN [outcome |-> "toolarge", stored |-> {}]
  ELSE [outcome |-> "stored",
        stored  |-> {storageFilename(id, file.originalname)}]

----------------------------------------------------------------------------
(* POST /api/register, extended variant *)

\* Mutant of newRow: status and admin_notes are taken from the body when the
\* caller sends them.
newRowFromBody(id, t, body, file, path) ==
  [id |-> id, created_at |-> t,
   status |-> IF "status" \in DOMAIN body THEN "Confirmed"
              ELSE "Pending Verification",
   middle_temple_member |-> body["middle_temple_member"],
   bmts_member_interest |-> body["bmts_member_interest"],
   title |-> body["title"],
   first_name |-> body["first_name"],
   last_name |-> body["last_name"],
   company |-> orEmpty(body, "company"),
   po_box |-> orEmpty(body, "po_box"),
   city |-> orEmpty(body, "city"),
   telephone |-> body["telephone"],
   email |-> body["email"],
   practice_track |-> body["practice_track"],
   payment_method |-> body["payment_method"],
   payment_file_name |-> IF file.originalname # <<>> THEN file.originalname
                         ELSE path,
   payment_file_path |-> path,
   admin_notes |-> IF "admin_notes" \in DOMAIN body THEN "n" ELSE ""]

\* Mutant of newRow: the path is rebuilt from the original name, whose
\* extension keeps its letter case.
newRowOriginalExt(id, t, body, file, path) ==
  [id |-> id, created_at |-> t, status |-> "Pending Verification",
   middle_temple_member |-> body["middle_temple_member"],
   bmts_member_interest |-> body["bmts_member_interest"],
   title |-> body["title"],
   first_name |-> body["first_name"],
   last_name |-> body["last_name"],
   company |-> orEmpty(body, "company"),
   po_box |-> orEmpty(body, "po_box"),
   city |-> orEmpty(body, "city"),
   telephone |-> body["telephone"],
   email |-> body["email"],
   practice_track |-> body["practice_track"],
   payment_method |-> body["payment_method"],
   payment_file_name |-> IF file.originalname # <<>> THEN file.originalname
                         ELSE path,
   payment_file_path |-> <<id, extname(file.originalname)>>,
   admin_notes |-> ""]

\* The row the INSERT writes.
newRow(id, t, body, file, path) ==
  [id |-> id, created_at |-> t, status |-> "Pending Verification",
   middle_temple_member |-> body["middle_temple_member"],
   bmts_member_interest |-> body["bmts_member_interest"],
   title |-> body["title"],
   first_name |-> body["first_name"],
   last_name |-> body["last_name"],
   company |-> orEmpty(body, "company"),
   po_box |-> orEmpty(body, "po_box"),
   city |-> orEmpty(body, "city"),
   telephone |-> body["telephone"],
   email |-> body["email"],
   practice_track |-> body["practice_track"],
   payment_method |-> body["payment_method"],
   payment_file_name |-> IF file.originalname # <<>> THEN file.originalname
                         ELSE path,
   payment_file_path |-> path,
   admin_notes |-> ""]

\* The two notifications of a successful intake, after the INSERT.
intakeMails(tr, ok1, ok2, row) ==
  LET conf  == generateRegistrationConfirmationEmail(row)
      first == sendEmail(tr, ok1, row.email, conf.subject, conf.text)
      adm   == generateAdminNotificationEmail(row)
      second == sendEmail(tr, ok2, OwnerEmail, adm.subject, adm.text)
  IN IF first.threw THEN [threw |-> TRUE, log |-> first.log]
     ELSE [threw |-> second.threw, log |-> first.log \o second.log]

\* Mutant of registerHandler: the required fields are tested before the file.
registerHandlerFieldsFirst(db, body, file, t, dbOk, ok1, ok2, tr) ==
  LET id   == uuidv4(db)
      up   == upload(file, id)
      fls  == db.files \cup up.stored
      path == CHOOSE f \in up.stored : TRUE
      row  == newRow(id, t, body, file, path)
      sent == intakeMails(tr, ok1, ok2, row)
      rejected(code, body_) ==
        [rows |-> db.rows, files |-> fls, now |-> db.now, mails |-> NoMails,
         resp |-> Response("register", code, body_)]
      inserted(code, body_) ==
        [rows |-> (id :> row) @@ db.rows, files |-> fls, now |-> t,
         mails |-> sent.log, resp |-> Response("register", code, body_)]
  IN
  IF up.outcome = "badtype" THEN
    rejected(500, [error |->
      "Invalid file type. Please upload PDF, JPG, JPEG, or PNG."])
  ELSE IF up.outcome = "toolarge" THEN
    rejected(500, [error |-> "File too large"])
  ELSE IF requiredRejected(body) THEN
    rejected(400, [message |-> "Please complete all required fields."])
  ELSE IF up.outcome = "nofile" THEN
    rejected(400, [message |-> "Payment proof is required."])
  ELSE IF ~dbOk THEN
    rejected(400, [message |-> "SQLITE_ERROR"])
  ELSE IF sent.threw THEN
    inserted(400, [message |-> "sendMail failed"])
  ELSE
    inserted(200, [registration_id |-> id])

\* The whole request: upload middleware, then the handler.  t is the clock
\* value read for created_at, dbOk whether the INSERT succeeds, ok1 and ok2
\* whether the relay accepts the first and the second message.
registerHandler(db, body, file, t, dbOk, ok1, ok2, tr) ==
  LET id   == uuidv4(db)
      up   == upload(file, id)
      fls  == db.files \cup up.stored
      path == CHOOSE f \in up.stored : TRUE
      row  == newRow(id, t, body, file, path)
      sent == intakeMails(tr, ok1, ok2, row)
      rejected(code, body_) ==
        [rows |-> db.rows, files |-> fls, now |-> db.now, mails |-> NoMails,
         resp |-> Response("register", code, body_)]
      inserted(code, body_) ==
        [rows |-> (id :> row) @@ db.rows, files |-> fls, now |-> t,
         mails |-> sent.log, resp |-> Response("register", code, body_)]
  IN
  IF up.outcome = "badtype" THEN
    rejected(500, [error |->
      "Invalid file type. Please upload PDF, JPG, JPEG, or PNG."])
  ELSE IF up.outcome = "toolarge" THEN
    rejected(500, [error |-> "File too large"])
  ELSE IF up.outcome = "nofile" THEN
    rejected(400, [message |-> "Payment proof is required."])
  ELSE IF requiredRejected(body) THEN
    rejected(400, [message |-> "Please complete all required fields."])
  ELSE IF ~dbOk THEN
    rejected(400, [message |-> "SQLITE_ERROR"])
  ELSE IF sent.threw THEN
    inserted(400, [message |-> "sendMail failed"])
  ELSE
    inserted(200, [registration_id |-> id])

----------------------------------------------------------------------------
(* Admin routes, extended variant *)

AdminCreds == [name |-> "admin", pass |-> "change-me-now"]
NoCreds == [name |-> "", pass |-> ""]

\* Mutant of requireAdmin: the password is not compared.
requireAdminNameOnly(creds) == creds.name = AdminCreds.name

\* requireAdmin: TRUE when the request passes on to the route.
requireAdmin(creds) ==
  ~(creds = NoCreds \/ creds.name # AdminCreds.name
                    \/ creds.pass # AdminCreds.pass)

unauthorized(db, op) ==
  [rows |-> db.rows, files |-> db.files, now |-> db.now, mails |-> NoMails,
   resp |-> Response(op, 401, [text |-> "Authentication required"])]

\* (req.body && req.body.k) ? String(req.body.k) : ''
bodyString(body, k) == IF k \in DOMAIN body /\ body[k] # "" THEN body[k] ELSE ""

\* Mutant of updateStatus: the UPDATE has no WHERE clause.
updateStatusEveryRow(rws, id, status, notes) ==
  [j \in DOMAIN rws |->
     [rws[j] EXCEPT !.status = status, !.admin_notes = notes]]

\* Mutant of updateStatus: a cancelled registration is deleted.
updateStatusDeletesCancelled(rws, id, status, notes) ==
  IF status = "Cancelled" THEN [j \in DOMAIN rws \ {id} |-> rws[j]]
  ELSE [rws EXCEPT ![id].status = status, ![id].admin_notes = notes]

\* UPDATE registrations SET status = ?, admin_notes = ? WHERE id = ?
updateStatus(rws, id, status, notes) ==
  [rws EXCEPT ![id].status = status, ![id].admin_notes = notes]

\* Mutant of statusMail: the templates get the notes stored in the row.
statusMailStoredNotes(tr, ok, row, status, oldStatus, notes) ==
  IF status # oldStatus THEN
    LET emailTemplate ==
          IF status = "Payment Verified"
            THEN generatePaymentVerifiedEmail(row)
          ELSE IF status = "Payment Rejected"
            THEN generatePaymentRejectedEmail(row, row.admin_notes)
          ELSE IF status = "Awaiting Resubmission"
            THEN generateAwaitingResubmissionEmail(row, row.admin_notes)
          ELSE generateStatusChangeNotificationEmail(row, status, oldStatus,
                                                     row.admin_notes)
    IN sendEmail(tr, ok, row.email, emailTemplate.subject, emailTemplate.text)
  ELSE [threw |-> FALSE, log |-> NoMails]

\* Mutant of statusMail: as in the first variant, Awaiting Resubmission gets
\* the rejection template and the other statuses get no message.
statusMailOldMapping(tr, ok, row, status, oldStatus, notes) ==
  IF status # oldStatus THEN
    IF status = "Payment Verified"
      THEN sendEmail(tr, ok, row.email,
                     generatePaymentVerifiedEmail(row).subject,
                     generatePaymentVerifiedEmail(row).text)
    ELSE IF status = "Payment Rejected" \/ status = "Awaiting Resubmission"
      THEN sendEmail(tr, ok, row.email,
                     generatePaymentRejectedEmail(row, notes).subject,
                     generatePaymentRejectedEmail(row, notes).text)
    ELSE [threw |-> FALSE, log |-> NoMails]
  ELSE [threw |-> FALSE, log |-> NoMails]

\* The notification of a transition, chosen by the new status.
statusMail(tr, ok, row, status, oldStatus, notes) ==
  IF status # oldStatus THEN
    LET emailTemplate ==
          IF status = "Payment Verified"
            THEN generatePaymentVerifiedEmail(row)
          ELSE IF status = "Payment Rejected"
            THEN generatePaymentRejectedEmail(row, notes)
          ELSE IF status = "Awaiting Resubmission"
            THEN generateAwaitingResubmissionEmail(row, notes)
          ELSE generateStatusChangeNotificationEmail(row, status, oldStatus,
                                                     notes)
    IN sendEmail(tr, ok, row.email, emailTemplate.subject, emailTemplate.text)
  ELSE [threw |-> FALSE, log |-> NoMails]

\* Mutant of statusGuard: the row is looked up before the status is tested.
statusGuardLookupFirst(db, id, status) ==
  IF id \notin DOMAIN db.rows THEN "notfound"
  ELSE IF status \notin allowed THEN "invalid"
  ELSE "ok"

\* Mutant of statusGuard: the membership test of the status is missing.
statusGuardNoSetCheck(db, id, status) ==
  IF id \notin DOMAIN db.rows THEN "notfound" ELSE "ok"

\* Mutant of statusGuard: both checks answer "Invalid status".
statusGuardMerged(db, id, status) ==
  IF status \notin allowed \/ id \notin DOMAIN db.rows THEN "invalid"
  ELSE "ok"

\* Mutant of statusGuard: a cancelled registration accepts no transition.
statusGuardTerminal(db, id, status) ==
  IF status \notin allowed THEN "invalid"
  ELSE IF id \notin DOMAIN db.rows THEN "notfound"
  ELSE IF db.rows[id].status = "Cancelled" THEN "invalid"
  ELSE "ok"

\* The two checks of the status route, in the order the handler makes them.
statusGuard(db, id, status) ==
  IF status \notin allowed THEN "invalid"
  ELSE IF id \notin DOMAIN db.rows THEN "notfound"
  ELSE "ok"

\* POST /admin/api/registration/:id/status
statusHandler(db, creds, id, body, ok, tr) ==
  LET status == bodyString(body, "status")
      notes  == bodyString(body, "admin_notes")
      row    == db.rows[id]
      oldStatus == row.status
      sent   == statusMail(tr, ok, row, status, oldStatus, notes)
      answer(rws, m, code, body_) ==
        [rows |-> rws, files |-> db.files, now |-> db.now, mails |-> m,
         resp |-> Response("status", code, body_)]
  IN
  IF ~requireAdmin(creds) THEN unauthorized(db, "status")
  ELSE IF statusGuard(db, id, status) = "invalid" THEN
    answer(db.rows, NoMails, 400, [message |-> "Invalid status"])
  ELSE IF statusGuard(db, id, status) = "notfound" THEN
    answer(db.rows, NoMails, 404, [message |-> "Not found"])
  ELSE IF sent.threw THEN
    \* the rejection leaves the async handler: no response is written
    answer(updateStatus(db.rows, id, status, notes), sent.log, 0,
           [text |-> "no response"])
  ELSE
    answer(updateStatus(db.rows, id, status, notes), sent.log, 200,
           [ok |-> TRUE])

\* GET /admin/api/registration/:id
detailHandler(db, creds, id) ==
  IF ~requireAdmin(creds) THEN unauthorized(db, "detail")
  ELSE [rows |-> db.rows, files |-> db.files, now |-> db.now,
        mails |-> NoMails,
        resp |-> IF id \notin DOMAIN db.rows
                 THEN Response("detail", 404, [message |-> "Not found"])
                 ELSE Response("detail", 200, [row |-> db.rows[id]])]

\* The columns the list query selects.
summary(row) ==
  [id |-> row.id, created_at |-> row.created_at, status |-> row.status,
   first_name |-> row.first_name, last_name |-> row.last_name,
   email |-> row.email, telephone |-> row.telephone,
   practice_track |-> row.practice_track,
   payment_method |-> row.payment_method]

\* Mutant of listed: the filter is ignored.
listedEveryRow(rws, status) == DOMAIN rws

\* The ids the list query selects: WHERE status = ? when a filter is given.
\* An absent or empty req.query.status is no filter.
listed(rws, status) ==
  {i \in DOMAIN rws : status = "" \/ rws[i].status = status}

\* ORDER BY created_at DESC: the orders of ids the query may return (rows of
\* equal created_at come in either order).
listOrders(rws, ids) ==
  {o \in [1..Cardinality(ids) -> ids] :
     /\ \A i, j \in 1..Cardinality(ids) : i # j => o[i] # o[j]
     /\ \A i, j \in 1..Cardinality(ids) :
          i < j => rws[o[i]].created_at >= rws[o[j]].created_at}

\* GET /admin/api/registrations
listHandler(db, creds, status, order) ==
  IF ~requireAdmin(creds) THEN unauthorized(db, "list")
  ELSE [rows |-> db.rows, files |-> db.files, now |-> db.now,
        mails |-> NoMails,
        resp |-> Response("list", 200,
                   [rows |-> [i \in 1..Len(order) |->
                                summary(db.rows[order[i]])]])]

\* Mutant of paymentProofHandler: the file is not looked for before the
\* download.
paymentProofHandlerNoExists(db, creds, id) ==
  IF ~requireAdmin(creds) THEN unauthorized(db, "payment-proof")
  ELSE [rows |-> db.rows, files |-> db.files, now |-> db.now,
        mails |-> NoMails,
        resp |-> IF id \notin DOMAIN db.rows
                   THEN Response("payment-proof", 404, [text |-> "Not found"])
                 ELSE Response("payment-proof", 200,
                        [download |-> db.rows[id].payment_file_path,
                         filename |-> db.rows[id].payment_file_name])]

\* GET /admin/api/registration/:id/payment-proof
paymentProofHandler(db, creds, id) ==
  IF ~requireAdmin(creds) THEN unauthorized(db, "payment-proof")
  ELSE [rows |-> db.rows, files |-> db.files, now |-> db.now,
        mails |-> NoMails,
        resp |-> IF id \notin DOMAIN db.rows
                   THEN Response("payment-proof", 404, [text |-> "Not found"])
                 ELSE IF db.rows[id].payment_file_path \notin db.files
                   THEN Response("payment-proof", 404,
                                 [text |-> "File missing"])
                 ELSE Response("payment-proof", 200,
                        [download |-> db.rows[id].payment_file_path,
                         filename |-> db.rows[id].payment_file_name])]

----------------------------------------------------------------------------
(* First variant of the server: the same routes with inline messages *)

\* The submission-received message of the first variant.
receivedMessageV1(id, body) ==
  [subject |-> <<"Registration", "Received", "Bahamas", "Middle", "Temple",
                 "Week", "2026">>,
   text |-> filterLines(<<
     <<"Dear ", body["title"], body["last_name"]>>,
     <<"Registration ID: ", id>>,
     <<"Name: ", body["title"], body["first_name"], body["last_name"]>>,
     <<"Practice Track: ", body["practice_track"]>>,
     <<"Payment Method: ", body["payment_method"]>>,
     optLine("Firm/Company: ", orEmpty(body, "company")),
     <<"Please retain this email and your Registration ID ", id>> >>)]

\* The owner message of the first variant.
ownerMessageV1(id, body, status) ==
  [subject |-> <<"New", "Registration:", body["first_name"],
                 body["last_name"], "Bahamas", "Middle", "Temple", "Week",
                 "2026">>,
   text |-> filterLines(<<
     <<"- Registration ID: ", id>>,
     <<"- Name: ", body["title"], body["first_name"], body["last_name"]>>,
     <<"- Email: ", body["email"]>>,
     <<"- Telephone: ", body["telephone"]>>,
     <<"- Practice Track: ", body["practice_track"]>>,
     <<"- Payment Method: ", body["payment_method"]>>,
     <<"- Middle Temple Member: ", body["middle_temple_member"]>>,
     <<"- BMTS Member Interest: ", body["bmts_member_interest"]>>,
     optLine("- Company: ", orEmpty(body, "company")),
     optLine("- City: ", orEmpty(body, "city")),
     <<"Status: ", status>> >>)]

\* POST /api/register, first variant
registerHandlerV1(db, body, file, t, dbOk, ok1, ok2, tr) ==
  LET id   == uuidv4(db)
      up   == upload(file, id)
      fls  == db.files \cup up.stored
      path == CHOOSE f \in up.stored : TRUE
      row  == newRow(id, t, body, file, path)
      msg  == receivedMessageV1(id, body)
      first == sendEmail(tr, ok1, body["email"], msg.subject, msg.text)
      ownerMsg == ownerMessageV1(id, body, "Pending Verification")
      second == sendEmail(tr, ok2, OwnerEmail, ownerMsg.subject,
                          ownerMsg.text)
      rejected(code, body_) ==
        [rows |-> db.rows, files |-> fls, now |-> db.now, mails |-> NoMails,
         resp |-> Response("register", code, body_)]
      inserted(m, code, body_) ==
        [rows |-> (id :> row) @@ db.rows, files |-> fls, now |-> t,
         mails |-> m, resp |-> Response("register", code, body_)]
  IN
  IF up.outcome = "badtype" THEN
    rejected(500, [error |->
      "Invalid file type. Please upload PDF, JPG, JPEG, or PNG."])
  ELSE IF up.outcome = "toolarge" THEN
    rejected(500, [error |-> "File too large"])
  ELSE IF up.outcome = "nofile" THEN
    rejected(400, [message |-> "Payment proof is required."])
  ELSE IF requiredRejected(body) THEN
    rejected(400, [message |-> "Please complete all required fields."])
  ELSE IF ~dbOk THEN
    rejected(400, [message |-> "SQLITE_ERROR"])
  ELSE IF first.threw THEN
    inserted(first.log, 400, [message |-> "sendMail failed"])
  ELSE IF second.threw THEN
    inserted(first.log \o second.log, 400, [message |-> "sendMail failed"])
  ELSE
    inserted(first.log \o second.log, 200, [registration_id |-> id])

\* The registration-confirmed message of the first variant.
confirmedMessageV1(row) ==
  [subject |-> <<"Registration", "Confirmed", "Bahamas", "Middle", "Temple",
                 "Week", "2026">>,
   text |-> <<
     <<"Dear ", row.title, row.last_name>>,
     <<"Registration ID: ", row.id>>,
     <<"Name: ", row.title, row.first_name, row.last_name>>,
     <<"Practice Track: ", row.practice_track>> >>]

\* The action-required message of the first variant.
actionRequiredMessageV1(row) ==
  [subject |-> <<"Action", "Required", "Registration", "Payment",
                 "Verification">>,
   text |-> <<
     <<"Dear ", row.title, row.last_name>>,
     <<"Registration ID: ", row.id>>,
     <<"Name: ", row.title, row.first_name, row.last_name>>,
     <<"Practice Track: ", row.practice_track>>,
     <<"Payment Method: ", row.payment_method>>,
     <<"1. Your Registration ID: ", row.id>> >>]

\* POST /admin/api/registration/:id/status, first variant: the message
\* depends on the new status alone, whatever the stored status was.
statusHandlerV1(db, creds, id, body, ok, tr) ==
  LET status == bodyString(body, "status")
      notes  == bodyString(body, "admin_notes")
      row    == db.rows[id]
      verified == confirmedMessageV1(row)
      action   == actionRequiredMessageV1(row)
      sent ==
        IF status = "Payment Verified"
          THEN sendEmail(tr, ok, row.email, verified.subject, verified.text)
        ELSE IF status = "Payment Rejected" \/ status = "Awaiting Resubmission"
          THEN sendEmail(tr, ok, row.email, action.subject, action.text)
        ELSE [threw |-> FALSE, log |-> NoMails]
      answer(rws, m, code, body_) ==
        [rows |-> rws, files |-> db.files, now |-> db.now, mails |-> m,
         resp |-> Response("status", code, body_)]
  IN
  IF ~requireAdmin(creds) THEN unauthorized(db, "status")
  ELSE IF status \notin allowedV1 THEN
    answer(db.rows, NoMails, 400, [message |-> "Invalid status"])
  ELSE IF id \notin DOMAIN db.rows THEN
    answer(db.rows, NoMails, 404, [message |-> "Not found"])
  ELSE IF sent.threw THEN
    answer(updateStatus(db.rows, id, status, notes), sent.log, 0,
           [text |-> "no response"])
  ELSE
    answer(updateStatus(db.rows, id, status, notes), sent.log, 200,
           [ok |-> TRUE])

----------------------------------------------------------------------------
(* Requests *)

OptionalSet == {"company", "po_box", "city"}

\* Fields a caller may add although the form has none of them.
ExtraSet == {"status", "id", "created_at", "admin_notes"}

\* All required fields filled, no optional field.
BaseBody == [k \in RequiredSet |-> <<"a">>]

\* All fields filled, another applicant.
FullBody ==
  [k \in RequiredSet \cup OptionalSet |->
     IF k \in OptionalSet \/ k = "email" THEN <<"b">> ELSE <<"a">>]

\* BaseBody with optional fields present but empty.
BlankOptionalBody ==
  [k \in RequiredSet \cup OptionalSet |->
     IF k \in OptionalSet THEN <<>> ELSE <<"a">>]

\* BaseBody with status-like fields added by the caller.
SpoofBody ==
  [k \in RequiredSet \cup ExtraSet |->
     IF k \in ExtraSet THEN <<"x">> ELSE <<"a">>]

\* body without field k
without(body, k) == [f \in DOMAIN body \ {k} |-> body[f]]

\* BaseBody with one required field absent, empty or blank.
BadBodies ==
  {without(BaseBody, k) : k \in RequiredSet}
    \cup {[BaseBody EXCEPT ![k] = v] :
            k \in RequiredSet, v \in {<<>>, <<" ">>}}

GoodBodies == {BaseBody, FullBody, BlankOptionalBody, SpoofBody}

Bodies == GoodBodies \cup BadBodies

NoFile == [present |-> FALSE, mimetype |-> "", originalname |-> <<>>,
           size |-> 0]

FileNames ==
  {<<"a", ".", "P", "N", "G">>, <<"a", ".", "e", "x", "e">>, <<"a">>}

Files ==
  {NoFile} \cup
  [present : {TRUE},
   mimetype : {"application/pdf", "image/png", "text/plain"},
   originalname : FileNames,
   size : {FileSizeLimit, FileSizeLimit + 1}]

GoodFile == [present |-> TRUE, mimetype |-> "image/png",
             originalname |-> <<"a", ".", "P", "N", "G">>,
             size |-> FileSizeLimit]

\* A file declared application/pdf under a .jpg name.
MismatchFile == [present |-> TRUE, mimetype |-> "application/pdf",
                 originalname |-> <<"b", ".", "j", "p", "g">>,
                 size |-> FileSizeLimit]

\* The intake requests: every body with a few files, every file with a few
\* bodies.
IntakeRequests ==
  (Bodies \X {NoFile, GoodFile,
              [GoodFile EXCEPT !.mimetype = "text/plain"],
              [GoodFile EXCEPT !.size = FileSizeLimit + 1]})
    \cup ({BaseBody, FullBody, without(BaseBody, "email")} \X Files)
    \cup {<<BaseBody, MismatchFile>>}

\* TRUE when the upload middleware would store the file of the request.
stores(file) == upload(file, 0).outcome = "stored"

Creds == {NoCreds, AdminCreds, [AdminCreds EXCEPT !.pass = "guess"]}

StatusInputs == allowed \cup {"Bogus", ""}
NotesInputs == {"n"}

\* JSON bodies of a status request: status and admin_notes, each optional.
StatusBodies ==
  {[k \in {"status", "admin_notes"} |-> IF k = "status" THEN s ELSE n] :
     s \in StatusInputs, n \in NotesInputs}
    \cup {[k \in {"status"} |-> s] : s \in StatusInputs}
    \cup {[k \in {"admin_notes"} |-> n] : n \in NotesInputs}
    \cup {[k \in {"status", "admin_notes"} |->
              IF k = "status" THEN "Payment Verified" ELSE ""]}

\* Ids a caller may name: every id a run can store, and one it cannot.
Ids == 1..(MaxUploads + 1)

\* Outcomes of transporter.sendMail that matter: none without a transporter.
SendOutcomes == IF transporter THEN BOOLEAN ELSE {TRUE}

----------------------------------------------------------------------------
(* Actions *)

Apply(r) ==
  /\ rows' = r.rows
  /\ files' = r.files
  /\ now' = r.now
  /\ resp' = r.resp
  /\ mails' = r.mails
  /\ UNCHANGED <<transporter, inflight, history>>

Init ==
  /\ rows = <<>>
  /\ files = {}
  /\ now = 0
  /\ transporter \in BOOLEAN
  /\ resp = Response("none", 0, [text |-> "none"])
  /\ mails = NoMails
  /\ inflight = [p \in Procs |-> Idle]
  /\ history = <<>>

\* POST /api/register
Register ==
  \E req \in IntakeRequests :
    /\ stores(req[2]) => Cardinality(usedIds(Db)) < MaxUploads
    /\ IF stores(req[2]) /\ ~requiredRejected(req[1])
       THEN \/ \E t \in {now, now + 1},
                    ok1 \in SendOutcomes, ok2 \in SendOutcomes :
                   Apply(registerHandler(Db, req[1], req[2], t, TRUE, ok1,
                                         ok2, transporter))
            \/ Apply(registerHandler(Db, req[1], req[2], now, FALSE, TRUE,
                                     TRUE, transporter))
       ELSE Apply(registerHandler(Db, req[1], req[2], now, TRUE, TRUE, TRUE,
                                  transporter))

\* POST /admin/api/registration/:id/status
SetStatus ==
  \E creds \in Creds, id \in Ids, body \in StatusBodies, ok \in SendOutcomes :
    Apply(statusHandler(Db, creds, id, body, ok, transporter))

\* GET /admin/api/registration/:id
Detail ==
  \E creds \in Creds, id \in Ids : Apply(detailHandler(Db, creds, id))

\* GET /admin/api/registrations
List ==
  \E creds \in Creds, status \in allowed \cup {"", "Bogus"} :
    \E order \in listOrders(rows, listed(rows, status)) :
      Apply(listHandler(Db, creds, status, order))

\* GET /admin/api/registration/:id/payment-proof
PaymentProof ==
  \E creds \in Creds, id \in Ids : Apply(paymentProofHandler(Db, creds, id))

Next == Register \/ SetStatus \/ Detail \/ List \/ PaymentProof

Spec == Init /\ [][Next]_vars

\* The first variant of the server.
RegisterV1 ==
  \E req \in IntakeRequests :
    /\ stores(req[2]) => Cardinality(usedIds(Db)) < MaxUploads
    /\ IF stores(req[2]) /\ ~requiredRejected(req[1])
       THEN \/ \E t \in {now, now + 1},
                    ok1 \in SendOutcomes, ok2 \in SendOutcomes :
                   Apply(registerHandlerV1(Db, req[1], req[2], t, TRUE, ok1,
                                           ok2, transporter))
            \/ Apply(registerHandlerV1(Db, req[1], req[2], now, FALSE, TRUE,
                                       TRUE, transporter))
       ELSE Apply(registerHandlerV1(Db, req[1], req[2], now, TRUE, TRUE,
                                    TRUE, transporter))

SetStatusV1 ==
  \E creds \in Creds, id \in Ids, body \in StatusBodies, ok \in SendOutcomes :
    Apply(statusHandlerV1(Db, creds, id, body, ok, transporter))

NextV1 == RegisterV1 \/ SetStatusV1

SpecV1 == Init /\ [][NextV1]_vars

----------------------------------------------------------------------------
(* The extended variant with room for two registrations and a small set of   *)
(* requests: for the properties that relate one registration to another.     *)

MaxRegistrations == 2

PairRequests ==
  {<<FullBody, GoodFile>>, <<BaseBody, GoodFile>>, <<BaseBody, NoFile>>,
   <<without(BaseBody, "email"), GoodFile>>}

PairStatusInputs == {"Payment Verified", "Cancelled", "Bogus"}

PairStatusBodies ==
  {[k \in {"status", "admin_notes"} |-> IF k = "status" THEN s ELSE "n"] :
     s \in PairStatusInputs}

PairFilters == {"", "Pending Verification", "Payment Verified"}

\* Ids a caller may name: every id a run can store, and one it cannot.
PairIds == 1..(MaxRegistrations + 1)

PairCreds == {NoCreds, AdminCreds}

\* POST /api/register
RegisterPair ==
  \E req \in PairRequests :
    /\ stores(req[2]) => Cardinality(usedIds(Db)) < MaxRegistrations
    /\ IF stores(req[2]) /\ ~requiredRejected(req[1])
       THEN \/ \E t \in {now, now + 1} :
                   Apply(registerHandler(Db, req[1], req[2], t, TRUE, TRUE,
                                         TRUE, transporter))
            \/ Apply(registerHandler(Db, req[1], req[2], now, FALSE, TRUE,
                                     TRUE, transporter))
       ELSE Apply(registerHandler(Db, req[1], req[2], now, TRUE, TRUE, TRUE,
                                  transporter))

\* POST /admin/api/registration/:id/status
SetStatusPair ==
  \E creds \in PairCreds, id \in PairIds, body \in PairStatusBodies :
    Apply(statusHandler(Db, creds, id, body, TRUE, transporter))

\* GET /admin/api/registration/:id
DetailPair ==
  \E creds \in PairCreds, id \in PairIds :
    Apply(detailHandler(Db, creds, id))

\* GET /admin/api/registrations
ListPair ==
  \E creds \in PairCreds, status \in PairFilters :
    \E order \in listOrders(rows, listed(rows, status)) :
      Apply(listHandler(Db, creds, status, order))

\* GET /admin/api/registration/:id/payment-proof
PaymentProofPair ==
  \E creds \in PairCreds, id \in PairIds :
    Apply(paymentProofHandler(Db, creds, id))

NextPair ==
  RegisterPair \/ SetStatusPair \/ DetailPair \/ ListPair \/ PaymentProofPair

SpecPair == Init /\ [][NextPair]_vars

----------------------------------------------------------------------------
(* SpecPair with an upload directory that can lose files: the file route     *)
(* tests fs.existsSync before the download.                                  *)

\* A file of UPLOAD_DIR is removed outside the server.
LoseUpload ==
  /\ \E f \in files : files' = files \ {f}
  /\ UNCHANGED <<rows, now, transporter, resp, mails, inflight, history>>

NextProof ==
  \/ RegisterPair
  \/ SetStatusPair
  \/ DetailPair
  \/ ListPair
  \/ PaymentProofPair
  \/ LoseUpload

SpecProof == Init /\ [][NextProof]_vars

----------------------------------------------------------------------------
(* The extended variant with requests in service at the same time.  A        *)
(* handler runs without interruption up to an await; the awaits of the two   *)
(* routes that write are those of sendEmail.  An action is the part of a     *)
(* handler between two awaits.                                               *)

ConcRequests == {<<FullBody, GoodFile>>, <<BaseBody, NoFile>>}

ConcStatusBodies ==
  {[k \in {"status", "admin_notes"} |->
      IF k = "status" THEN "Payment Verified" ELSE "n"],
   [k \in {"status", "admin_notes"} |->
      IF k = "status" THEN "Payment Rejected" ELSE "m"],
   [k \in {"status"} |-> "Payment Verified"],
   [k \in {"status"} |-> "Bogus"]}

\* Ids a caller may name: the one a run stores, and one it does not.
ConcIds == {1, 2}

\* An entry of history.  ev is "insert", "update", "mail" or "respond"; p the
\* handler; status and notes what an update wrote, or the kind of a mail
\* ("confirmation", "alert", "transition"), or the outcome of a response;
\* seen the status the handler had read, stored the status the table held
\* right before the update.
Event(ev, p, id, status, notes, seen, stored) ==
  [ev |-> ev, p |-> p, id |-> id, status |-> status, notes |-> notes,
   seen |-> seen, stored |-> stored]

\* Without a transporter sendEmail returns at once and the awaits resume the
\* handler before any other request is served; with one, other requests are
\* served while sendMail is under way.
mayRun(p) ==
  transporter
    \/ \A q \in Procs \ {p} : inflight[q].pc \in {"idle", "done"}

\* Mutant of IntakeStart: the confirmation is handed to sendEmail before the
\* INSERT.
IntakeStartMailFirst(p) ==
  /\ inflight[p].pc = "idle"
  /\ mayRun(p)
  /\ \E req \in ConcRequests :
       LET r == registerHandler(Db, req[1], req[2], now, TRUE, TRUE, TRUE,
                                transporter)
           id == r.resp.body.registration_id
       IN IF r.resp.code # 200
          THEN /\ rows' = r.rows /\ files' = r.files /\ now' = r.now
               /\ resp' = r.resp /\ mails' = NoMails
               /\ inflight' = [inflight EXCEPT ![p].pc = "done"]
               /\ history' = Append(history,
                    Event("respond", p, 0, "rejected", "", "", ""))
          ELSE /\ rows' = r.rows /\ files' = r.files /\ now' = r.now
               /\ inflight' = [inflight EXCEPT ![p] =
                    [pc |-> "confirmation", id |-> id, row |-> r.rows[id],
                     ok1 |-> TRUE, sent |-> <<>>]]
               /\ history' = history \o
                    <<Event("mail", p, id, "confirmation", "", "", ""),
                      Event("insert", p, id, "Pending Verification", "", "",
                            "")>>
               /\ UNCHANGED <<resp, mails>>
  /\ UNCHANGED transporter

\* POST /api/register up to the await of the first sendEmail: upload, checks,
\* INSERT, confirmation handed to sendEmail.
IntakeStart(p) ==
  /\ inflight[p].pc = "idle"
  /\ mayRun(p)
  /\ \E req \in ConcRequests :
       LET r == registerHandler(Db, req[1], req[2], now, TRUE, TRUE, TRUE,
                                transporter)
           id == r.resp.body.registration_id
       IN IF r.resp.code # 200
          THEN /\ rows' = r.rows /\ files' = r.files /\ now' = r.now
               /\ resp' = r.resp /\ mails' = NoMails
               /\ inflight' = [inflight EXCEPT ![p].pc = "done"]
               /\ history' = Append(history,
                    Event("respond", p, 0, "rejected", "", "", ""))
          ELSE /\ rows' = r.rows /\ files' = r.files /\ now' = r.now
               /\ inflight' = [inflight EXCEPT ![p] =
                    [pc |-> "confirmation", id |-> id, row |-> r.rows[id],
                     ok1 |-> TRUE, sent |-> <<>>]]
               /\ history' = history \o
                    <<Event("insert", p, id, "Pending Verification", "", "",
                            ""),
                      Event("mail", p, id, "confirmation", "", "", "")>>
               /\ UNCHANGED <<resp, mails>>
  /\ UNCHANGED transporter

\* POST /api/register between the two awaits: the first sendEmail is over,
\* the alert is handed to sendEmail.
IntakeAlert(p) ==
  /\ inflight[p].pc = "confirmation"
  /\ mayRun(p)
  /\ \E ok1 \in SendOutcomes :
       inflight' = [inflight EXCEPT ![p].pc = "alert", ![p].ok1 = ok1]
  /\ history' = Append(history,
       Event("mail", p, inflight[p].id, "alert", "", "", ""))
  /\ UNCHANGED <<rows, files, now, transporter, resp, mails>>

\* POST /api/register after the second await: the response.
IntakeRespond(p) ==
  /\ inflight[p].pc = "alert"
  /\ mayRun(p)
  /\ \E ok2 \in SendOutcomes :
       mails' = intakeMails(transporter, inflight[p].ok1, ok2,
                            inflight[p].row).log
  /\ resp' = Response("register", 200, [registration_id |-> inflight[p].id])
  /\ inflight' = [inflight EXCEPT ![p].pc = "done"]
  /\ history' = Append(history,
       Event("respond", p, inflight[p].id, "registered", "", "", ""))
  /\ UNCHANGED <<rows, files, now, transporter>>

\* Mutant of StatusStart: status and admin_notes are written by two UPDATEs
\* with an await between them.
StatusStartTwoUpdates(p) ==
  \/ /\ inflight[p].pc = "idle"
     /\ mayRun(p)
     /\ \E id \in ConcIds, body \in ConcStatusBodies :
          LET status == bodyString(body, "status")
              notes  == bodyString(body, "admin_notes")
          IN /\ statusGuard(Db, id, status) = "ok"
             /\ rows' = [rows EXCEPT ![id].status = status]
             /\ inflight' = [inflight EXCEPT ![p] =
                  [pc |-> "notes", id |-> id, row |-> rows[id],
                   ok1 |-> TRUE, sent |-> <<notes>>]]
             /\ history' = Append(history,
                  Event("update", p, id, status, notes, rows[id].status,
                        rows[id].status))
     /\ UNCHANGED <<files, now, transporter, resp, mails>>
  \/ /\ inflight[p].pc = "notes"
     /\ rows' = [rows EXCEPT
                   ![inflight[p].id].admin_notes = inflight[p].sent[1]]
     /\ inflight' = [inflight EXCEPT ![p].pc = "done"]
     /\ resp' = Response("status", 200, [ok |-> TRUE])
     /\ mails' = NoMails
     /\ UNCHANGED <<files, now, transporter, history>>

\* Mutant of StatusStart: an await stands between the SELECT and the UPDATE.
StatusStartReadThenUpdate(p) ==
  \/ /\ inflight[p].pc = "idle"
     /\ mayRun(p)
     /\ \E id \in ConcIds, body \in ConcStatusBodies :
          /\ statusGuard(Db, id, bodyString(body, "status")) = "ok"
          /\ inflight' = [inflight EXCEPT ![p] =
               [pc |-> "read", id |-> id, row |-> rows[id], ok1 |-> TRUE,
                sent |-> <<body>>]]
     /\ UNCHANGED <<rows, files, now, transporter, resp, mails, history>>
  \/ /\ inflight[p].pc = "read"
     /\ LET id     == inflight[p].id
            body   == inflight[p].sent[1]
            status == bodyString(body, "status")
            notes  == bodyString(body, "admin_notes")
            oldStatus == inflight[p].row.status
        IN /\ rows' = updateStatus(rows, id, status, notes)
           /\ IF status # oldStatus
              THEN /\ inflight' = [inflight EXCEPT ![p] =
                        [pc |-> "transition", id |-> id,
                         row |-> inflight[p].row, ok1 |-> TRUE,
                         sent |-> statusMail(transporter, TRUE,
                                             inflight[p].row, status,
                                             oldStatus, notes).log]]
                   /\ history' = history \o
                        <<Event("update", p, id, status, notes, oldStatus,
                                rows[id].status),
                          Event("mail", p, id, "transition", notes, "", "")>>
                   /\ UNCHANGED <<resp, mails>>
              ELSE /\ inflight' = [inflight EXCEPT ![p].pc = "done"]
                   /\ history' = Append(history,
                        Event("update", p, id, status, notes, oldStatus,
                              rows[id].status))
                   /\ resp' = Response("status", 200, [ok |-> TRUE])
                   /\ mails' = NoMails
     /\ UNCHANGED <<files, now, transporter>>

\* POST /admin/api/registration/:id/status of an administrator up to its
\* await: checks, SELECT, UPDATE, and the message handed to sendEmail when the
\* status read differs from the new one; without a message, the response.
StatusStart(p) ==
  /\ inflight[p].pc = "idle"
  /\ mayRun(p)
  /\ \E id \in ConcIds, body \in ConcStatusBodies, ok \in SendOutcomes :
       LET status == bodyString(body, "status")
           notes  == bodyString(body, "admin_notes")
           r == statusHandler(Db, AdminCreds, id, body, ok, transporter)
           oldStatus == rows[id].status
       IN IF statusGuard(Db, id, status) # "ok"
          THEN /\ resp' = r.resp /\ mails' = NoMails
               /\ inflight' = [inflight EXCEPT ![p].pc = "done"]
               /\ UNCHANGED <<rows, history>>
          ELSE /\ rows' = updateStatus(rows, id, status, notes)
               /\ IF status # oldStatus
                  THEN /\ inflight' = [inflight EXCEPT ![p] =
                            [pc |-> "transition", id |-> id,
                             row |-> rows[id], ok1 |-> ok,
                             sent |-> statusMail(transporter, ok, rows[id],
                                                 status, oldStatus,
                                                 notes).log]]
                       /\ history' = history \o
                            <<Event("update", p, id, status, notes, oldStatus,
                                    rows[id].status),
                              Event("mail", p, id, "transition", notes, "",
                                    "")>>
                       /\ UNCHANGED <<resp, mails>>
                  ELSE /\ inflight' = [inflight EXCEPT ![p].pc = "done"]
                       /\ history' = Append(history,
                            Event("update", p, id, status, notes, oldStatus,
                                  rows[id].status))
                       /\ resp' = Response("status", 200, [ok |-> TRUE])
                       /\ mails' = NoMails
  /\ UNCHANGED <<files, now, transporter>>

\* POST /admin/api/registration/:id/status after its await: the response.
StatusRespond(p) ==
  /\ inflight[p].pc = "transition"
  /\ mayRun(p)
  /\ resp' = Response("status", 200, [ok |-> TRUE])
  /\ mails' = inflight[p].sent
  /\ inflight' = [inflight EXCEPT ![p].pc = "done"]
  /\ UNCHANGED <<rows, files, now, transporter, history>>

NextConc ==
  \E p \in Procs :
    \/ IntakeStart(p)
    \/ IntakeAlert(p)
    \/ IntakeRespond(p)
    \/ StatusStart(p)
    \/ StatusRespond(p)

SpecConc == Init /\ [][NextConc]_vars

----------------------------------------------------------------------------
(* Claims.  A claim about a request is stated over every reachable state and *)
(* every request of the sets the actions draw from: the result of the        *)
(* handler on that state and request is what the action would install.       *)

\* The status set as the specification enumerates it.
ClaimedStatuses ==
  {"Pending Verification", "Payment Verified", "Payment Rejected",
   "Awaiting Resubmission", "Cancelled", "Waitlisted", "Confirmed"}

\* The required fields as the specification enumerates them.
ClaimedRequired ==
  {"middle_temple_member", "bmts_member_interest", "title", "first_name",
   "last_name", "telephone", "email", "practice_track", "payment_method",
   "consent"}

\* The status and the notes a status request asks for.
askedStatus(body) == IF "status" \in DOMAIN body THEN body["status"] ELSE ""
askedNotes(body) ==
  IF "admin_notes" \in DOMAIN body THEN body["admin_notes"] ELSE ""

OkResponse == Response("status", 200, [ok |-> TRUE])

\* A transition to the stored status replaces the notes and dispatches
\* nothing, for the status handler H.
NoOpTransitionSilent(H(_, _, _, _, _, _)) ==
  \A id \in DOMAIN rows, body \in StatusBodies, ok \in SendOutcomes :
    LET r == H(Db, AdminCreds, id, body, ok, transporter)
    IN (r.resp = OkResponse /\ askedStatus(body) = rows[id].status)
         => /\ r.rows[id].admin_notes = askedNotes(body)
            /\ r.mails = NoMails

\* C1 (extended variant): a successful transition to the currently stored
\* status replaces admin_notes by the notes of the request and dispatches no
\* notification.
C1_NoOpTransitionSilent_Extended == NoOpTransitionSilent(statusHandler)

\* C1: for every successful transition whose target status equals the stored
\* status, the stored admin_notes become the notes of the request and zero
\* notifications are dispatched; stated of the first variant of the handler.
C1_NoOpTransitionSilent == NoOpTransitionSilent(statusHandlerV1)

\* C2: an authorised status request whose target status is outside the
\* allowed set is answered "Invalid status", changes no row and dispatches
\* nothing.
C2_InvalidStatusRejected ==
  \A id \in Ids, body \in StatusBodies, ok \in SendOutcomes :
    askedStatus(body) \notin ClaimedStatuses =>
      LET r == statusHandler(Db, AdminCreds, id, body, ok, transporter)
      IN /\ r.resp = Response("status", 400, [message |-> "Invalid status"])
         /\ r.rows = rows
         /\ r.mails = NoMails

C2_Witness ==
  /\ resp = Response("status", 400, [message |-> "Invalid status"])
  /\ \E id \in DOMAIN rows : rows[id].status = "Payment Verified"
  /\ mails = NoMails

\* C3: an authorised status request with an allowed target status and an id
\* that matches no row is answered "Not found", creates and changes no row
\* and dispatches nothing.
C3_UnknownIdNotFound ==
  \A id \in Ids \ DOMAIN rows, body \in StatusBodies, ok \in SendOutcomes :
    askedStatus(body) \in ClaimedStatuses =>
      LET r == statusHandler(Db, AdminCreds, id, body, ok, transporter)
      IN /\ r.resp = Response("status", 404, [message |-> "Not found"])
         /\ r.rows = rows
         /\ r.mails = NoMails

C3_Witness ==
  /\ resp = Response("status", 404, [message |-> "Not found"])
  /\ rows # <<>>
  /\ mails = NoMails

\* The results of the intake handler on request req, over the clock values,
\* storage outcomes and relay outcomes it may meet.
intakeResults(req) ==
  IF stores(req[2])
  THEN {registerHandler(Db, req[1], req[2], t, dbOk, ok1, ok2, transporter) :
          t \in {now, now + 1}, dbOk \in BOOLEAN,
          ok1 \in SendOutcomes, ok2 \in SendOutcomes}
  ELSE {registerHandler(Db, req[1], req[2], now, TRUE, TRUE, TRUE,
                        transporter)}

\* C4: every registration a successful intake creates has status 'Pending
\* Verification' and empty admin_notes, a fresh id and a server-side
\* created_at, whatever fields the caller submits, and a detail lookup by the
\* returned id right after returns status 'Pending Verification'.
C4_CreatedPending ==
  \A req \in IntakeRequests : \A r \in intakeResults(req) :
    r.resp.code = 200 =>
      LET id == r.resp.body.registration_id
          d  == detailHandler([rows |-> r.rows, files |-> r.files,
                               now |-> r.now], AdminCreds, id)
      IN /\ id \notin DOMAIN rows
         /\ id \in DOMAIN r.rows
         /\ r.rows[id].status = "Pending Verification"
         /\ r.rows[id].admin_notes = ""
         /\ r.rows[id].id = id
         /\ r.rows[id].created_at \in {now, now + 1}
         /\ d.resp.code = 200
         /\ d.resp.body.row.status = "Pending Verification"

C4_Witness ==
  /\ resp.op = "register"
  /\ resp.code = 200
  /\ rows[resp.body.registration_id].status = "Pending Verification"
  /\ rows[resp.body.registration_id].admin_notes = ""

\* C5: in every reachable state the status of every row is one of the seven
\* allowed statuses, and a row's status changes only in a step that is a
\* successful status transition.
C5_StatusInSetAndOnlyByTransition ==
  /\ [](\A id \in DOMAIN rows : rows[id].status \in ClaimedStatuses)
  /\ [][\A id \in DOMAIN rows :
          rows'[id].status # rows[id].status => resp' = OkResponse]_vars

C5_Witness ==
  /\ resp = OkResponse
  /\ \E id \in DOMAIN rows : rows[id].status = "Waitlisted"

\* C6: for every stored registration and every allowed target status, equal
\* to the stored status or not, the transition succeeds and leaves the stored
\* status equal to the target: no status is terminal.
C6_EveryTransitionAllowed ==
  \A id \in DOMAIN rows, body \in StatusBodies, ok \in SendOutcomes :
    askedStatus(body) \in ClaimedStatuses =>
      LET r == statusHandler(Db, AdminCreds, id, body, ok, transporter)
      IN /\ r.resp = OkResponse
         /\ r.rows[id].status = askedStatus(body)

\* A transition back to 'Pending Verification' from another status happened.
C6_Witness ==
  /\ resp = OkResponse
  /\ Len(mails) = 1
  /\ \E id \in DOMAIN rows :
       /\ rows[id].status = "Pending Verification"
       /\ mails[1].to = rows[id].email

\* TRUE when word w occurs in subject s.
hasWord(s, w) == \E i \in 1..Len(s) : s[i] = w

\* The word of the subject that tells the templates apart.
ClaimedTemplateWord(status) ==
  CASE status = "Payment Verified" -> "Confirmed"
    [] status = "Payment Rejected" -> "Action"
    [] status = "Awaiting Resubmission" -> "Resubmission"
    [] OTHER -> "Update"

\* C7: every successful transition that changes the status dispatches exactly
\* one notification, addressed to the registration's email, whose template is
\* chosen by the new status alone: confirmation for Payment Verified,
\* rejection for Payment Rejected, resubmission for Awaiting Resubmission, the
\* generic status update for every other allowed status; its text names the
\* registration id.
C7_OneNotificationByNewStatus ==
  \A id \in DOMAIN rows, body \in StatusBodies, ok \in SendOutcomes :
    (askedStatus(body) \in ClaimedStatuses
       /\ askedStatus(body) # rows[id].status) =>
      LET r == statusHandler(Db, AdminCreds, id, body, ok, transporter)
      IN /\ r.resp = OkResponse
         /\ Len(r.mails) = 1
         /\ r.mails[1].to = rows[id].email
         /\ \A s \in ClaimedStatuses :
              hasWord(r.mails[1].subject, ClaimedTemplateWord(s))
                <=> ClaimedTemplateWord(s)
                      = ClaimedTemplateWord(askedStatus(body))
         /\ \E i \in 1..Len(r.mails[1].text) :
              r.mails[1].text[i] = <<"Registration ID: ", id>>

C7_Witness ==
  /\ resp = OkResponse
  /\ Len(mails) = 1
  /\ hasWord(mails[1].subject, "Confirmed")
  /\ \E id \in DOMAIN rows :
       /\ rows[id].status = "Payment Verified"
       /\ mails[1].to = rows[id].email
       /\ \E i \in 1..Len(mails[1].text) :
            mails[1].text[i] = <<"Registration ID: ", id>>

\* C8: a failed dispatch never aborts the request.  With a transporter whose
\* sendMail fails, a valid intake still stores the row and answers with the
\* registration id, and a transition still stores status and notes and
\* answers ok: the answers are those of the same request with working sends.
C8_SendFailureNeverAborts ==
  /\ \A req \in IntakeRequests :
       \A t \in {now, now + 1}, ok1 \in BOOLEAN, ok2 \in BOOLEAN :
         LET good == registerHandler(Db, req[1], req[2], t, TRUE, TRUE, TRUE,
                                     TRUE)
             r    == registerHandler(Db, req[1], req[2], t, TRUE, ok1, ok2,
                                     TRUE)
         IN good.resp.code = 200 =>
              /\ r.resp = good.resp
              /\ r.rows = good.rows
              /\ r.resp.body.registration_id \in DOMAIN r.rows
              /\ Len(r.mails) = 2
  /\ \A id \in DOMAIN rows, body \in StatusBodies :
       askedStatus(body) \in ClaimedStatuses =>
         LET r == statusHandler(Db, AdminCreds, id, body, FALSE, TRUE)
         IN /\ r.resp = OkResponse
            /\ r.rows[id].status = askedStatus(body)
            /\ r.rows[id].admin_notes = askedNotes(body)

\* An intake answered with its id although the relay refused a message, and a
\* transition answered ok although the relay refused its message.
C8_Witness ==
  /\ transporter
  /\ \E i \in 1..Len(mails) : ~mails[i].delivered
  /\ \/ /\ resp.op = "register"
        /\ resp.code = 200
        /\ resp.body.registration_id \in DOMAIN rows
     \/ /\ resp = OkResponse
        /\ \E id \in DOMAIN rows : rows[id].status = "Payment Rejected"

\* What a caller and the store see of a handler's result.
visible(r) == [resp |-> r.resp, rows |-> r.rows, files |-> r.files]

\* The mails of a result without their delivery marks.
undelivered(m) == [i \in 1..Len(m) |-> [m[i] EXCEPT !.delivered = FALSE]]

\* C9: from every reachable state, every intake and transition request gives
\* the same response and the same stored state without a transporter as with
\* a working one; the same messages are handed to sendEmail and only their
\* delivery differs.  (The list, detail and file routes never call sendEmail.)
C9_NotifierAbsenceInvisible ==
  /\ \A req \in IntakeRequests : \A t \in {now, now + 1}, dbOk \in BOOLEAN :
       LET with    == registerHandler(Db, req[1], req[2], t, dbOk, TRUE, TRUE,
                                      TRUE)
           without_ == registerHandler(Db, req[1], req[2], t, dbOk, TRUE,
                                       TRUE, FALSE)
       IN /\ visible(with) = visible(without_)
          /\ undelivered(with.mails) = without_.mails
          /\ \A i \in 1..Len(with.mails) : with.mails[i].delivered
  /\ \A creds \in Creds, id \in Ids, body \in StatusBodies :
       LET with    == statusHandler(Db, creds, id, body, TRUE, TRUE)
           without_ == statusHandler(Db, creds, id, body, TRUE, FALSE)
       IN /\ visible(with) = visible(without_)
          /\ undelivered(with.mails) = without_.mails
          /\ \A i \in 1..Len(with.mails) : with.mails[i].delivered

\* Without a transporter an intake succeeded and handed over two messages,
\* none of which was delivered.
C9_Witness ==
  /\ ~transporter
  /\ resp.op = "register"
  /\ resp.code = 200
  /\ Len(mails) = 2
  /\ \A i \in 1..Len(mails) : ~mails[i].delivered

\* TRUE when v holds nothing but white space.
blank(v) == \A i \in 1..Len(v) : v[i] = " "

\* C10: an intake whose file the upload accepts and whose body lacks one of
\* the ten required fields, or holds only white space in it, is answered
\* "Please complete all required fields.", creates no row and dispatches
\* nothing; a body with every required field and none of company, po_box and
\* city is not rejected.
C10_RequiredFields ==
  \A req \in IntakeRequests : \A r \in intakeResults(req) :
    stores(req[2]) =>
      /\ (\E k \in ClaimedRequired :
            k \notin DOMAIN req[1] \/ blank(req[1][k]))
           => /\ r.resp = Response("register", 400,
                   [message |-> "Please complete all required fields."])
              /\ r.rows = rows
              /\ r.mails = NoMails
      /\ ((\A k \in ClaimedRequired :
             k \in DOMAIN req[1] /\ ~blank(req[1][k]))
          /\ DOMAIN req[1] \cap {"company", "po_box", "city"} = {})
           => r.resp.body # [message |->
                               "Please complete all required fields."]

\* An intake with an accepted file was rejected for a required field: its file
\* is stored and no row exists.
C10_Witness ==
  /\ resp = Response("register", 400,
                     [message |-> "Please complete all required fields."])
  /\ files # {}
  /\ rows = <<>>
  /\ mails = NoMails

----------------------------------------------------------------------------
(* File validation and intake failures *)

\* The content-type the specification pairs with a file name's extension;
\* "none" for any other name.
claimedTypeOf(filename) ==
  IF endsWith(filename, <<".", "p", "d", "f">>) THEN "application/pdf"
  ELSE IF endsWith(filename, <<".", "j", "p", "g">>)
          \/ endsWith(filename, <<".", "j", "p", "e", "g">>)
    THEN "image/jpeg"
  ELSE IF endsWith(filename, <<".", "p", "n", "g">>) THEN "image/png"
  ELSE "none"

\* TRUE when result r of an intake is a rejection: no id, no new row.
intakeRejected(r) ==
  /\ r.resp.code # 200
  /\ "registration_id" \notin DOMAIN r.resp.body
  /\ r.rows = rows

\* C11: an intake whose file is declared under one accepted content-type and
\* named with the extension of another (application/pdf under a .jpg name) is
\* rejected.
C11_MismatchRejected ==
  \A req \in IntakeRequests : \A r \in intakeResults(req) :
    (/\ req[2].present
     /\ claimedTypeOf(req[2].originalname) # "none"
     /\ req[2].mimetype # claimedTypeOf(req[2].originalname))
      => intakeRejected(r)

\* C11, the part the source keeps: an intake is accepted only when the
\* content-type is one of the three and the name ends in one of the four
\* extensions, in any letter case.
C11_BothMustPass ==
  \A req \in IntakeRequests : \A r \in intakeResults(req) :
    (req[2].present /\ r.resp.code = 200)
      => /\ req[2].mimetype \in {"application/pdf", "image/jpeg", "image/png"}
         /\ claimedTypeOf(toLowerCase(req[2].originalname)) # "none"

\* The validation failures of an intake request as the specification lists
\* them, read off the request alone.
failures(req) ==
  {f \in {"field", "type", "size", "file"} :
     \/ f = "file" /\ ~req[2].present
     \/ /\ f = "type"
        /\ req[2].present
        /\ \/ req[2].mimetype \notin
                {"application/pdf", "image/jpeg", "image/png"}
           \/ claimedTypeOf(toLowerCase(req[2].originalname)) = "none"
     \/ f = "size" /\ req[2].present /\ req[2].size > 10 * 1024 * 1024
     \/ /\ f = "field"
        /\ \E k \in ClaimedRequired :
             k \notin DOMAIN req[1] \/ blank(req[1][k])}

\* The rejection messages the specification words.
ClaimedMessage ==
  [f \in {"field", "type", "file"} |->
     IF f = "field" THEN "Please complete all required fields."
     ELSE IF f = "type"
       THEN "Invalid file type. Please upload PDF, JPG, JPEG, or PNG."
     ELSE "Payment proof is required."]

\* C12: an intake with a validation failure (required field missing, file
\* type invalid, file oversized, file missing) is answered with status 400 and
\* a message that is the rejection message of one of its failures, and with
\* no registration id.
C12_ValidationFailures400 ==
  \A req \in IntakeRequests : \A r \in intakeResults(req) :
    failures(req) # {} =>
      /\ r.resp.code = 400
      /\ "registration_id" \notin DOMAIN r.resp.body
      /\ "message" \in DOMAIN r.resp.body
      /\ \/ "size" \in failures(req)
         \/ \E f \in failures(req) : r.resp.body.message = ClaimedMessage[f]

\* C12, the part the source keeps: the two failures the route itself detects
\* (no file; a required field missing, the file being stored) are answered
\* 400 with their message, and no failure returns a registration id.
C12_HandlerFailures400 ==
  \A req \in IntakeRequests : \A r \in intakeResults(req) :
    /\ failures(req) = {"file"}
         => r.resp = Response("register", 400,
                              [message |-> ClaimedMessage["file"]])
    /\ failures(req) = {"field"}
         => r.resp = Response("register", 400,
                              [message |-> ClaimedMessage["field"]])
    /\ failures(req) # {} => "registration_id" \notin DOMAIN r.resp.body

\* C13: an intake with a validation failure leaves the table and the upload
\* directory as they were.
C13_NothingPersisted ==
  \A req \in IntakeRequests : \A r \in intakeResults(req) :
    failures(req) # {} => r.rows = rows /\ r.files = files

\* C13, the part the source keeps: an intake with a validation failure
\* inserts no row, and stores no file when the failure is of the file.
C13_NoRowPersisted ==
  \A req \in IntakeRequests : \A r \in intakeResults(req) :
    /\ failures(req) # {} => r.rows = rows
    /\ failures(req) \cap {"file", "type", "size"} # {} => r.files = files

\* C14: the size bound is 10 x 1024 x 1024 bytes; an intake with every
\* required field and a file of accepted type of at most that size, whose
\* insert succeeds, returns an id and stores the submitted file name as
\* payment_file_name; an intake with a larger file is rejected and creates no
\* row.
C14_SizeBound ==
  /\ FileSizeLimit = 10 * 1024 * 1024
  /\ \A req \in IntakeRequests :
       /\ (/\ req[2].present
           /\ req[2].size <= 10 * 1024 * 1024
           /\ failures(req) = {})
            => \A t \in {now, now + 1}, ok1 \in SendOutcomes,
                  ok2 \in SendOutcomes :
                 LET r == registerHandler(Db, req[1], req[2], t, TRUE, ok1,
                                          ok2, transporter)
                 IN /\ r.resp.code = 200
                    /\ r.rows[r.resp.body.registration_id].payment_file_name
                         = req[2].originalname
       /\ (req[2].present /\ req[2].size > 10 * 1024 * 1024)
            => \A r \in intakeResults(req) : intakeRejected(r)

\* An intake with a file of exactly the bound succeeded: the row carries the
\* submitted name, the stored file another one.
C14_Witness ==
  /\ resp.op = "register"
  /\ resp.code = 200
  /\ GoodFile.size = 10 * 1024 * 1024
  /\ rows[resp.body.registration_id].payment_file_name
       = GoodFile.originalname
  /\ rows[resp.body.registration_id].payment_file_path
       # GoodFile.originalname

\* C15: when the INSERT of an intake fails, the response carries a message
\* that is not the message of the storage error, no registration id, and no
\* notification is dispatched.
C15_StorageFailureGeneric ==
  \A req \in IntakeRequests :
    (stores(req[2]) /\ ~requiredRejected(req[1])) =>
      LET r == registerHandler(Db, req[1], req[2], now, FALSE, TRUE, TRUE,
                               transporter)
      IN /\ r.resp.code # 200
         /\ "registration_id" \notin DOMAIN r.resp.body
         /\ r.mails = NoMails
         /\ r.resp.body.message # "SQLITE_ERROR"

\* C15, the part the source keeps: a failed INSERT returns no id, inserts no
\* row and dispatches nothing.
C15_StorageFailureSilent ==
  \A req \in IntakeRequests :
    (stores(req[2]) /\ ~requiredRejected(req[1])) =>
      LET r == registerHandler(Db, req[1], req[2], now, FALSE, TRUE, TRUE,
                               transporter)
      IN intakeRejected(r) /\ r.mails = NoMails

\* C16: in every reachable state, and in the state any intake would leave,
\* the payment_file_path of every row names a file of the upload directory;
\* a file no row names may exist.
C16_RowHasFile ==
  /\ \A id \in DOMAIN rows : rows[id].payment_file_path \in files
  /\ \A req \in IntakeRequests : \A r \in intakeResults(req) :
       \A id \in DOMAIN r.rows : r.rows[id].payment_file_path \in r.files

\* A failed intake came after a successful one: the row still has its file.
C16_Witness ==
  /\ resp.op = "register"
  /\ resp.code # 200
  /\ rows # <<>>
  /\ \A id \in DOMAIN rows : rows[id].payment_file_path \in files

\* A failed intake left a file no row names.
C16_OrphanWitness ==
  /\ resp.op = "register"
  /\ resp.code # 200
  /\ rows = <<>>
  /\ files # {}

----------------------------------------------------------------------------
(* Properties relating registrations, under SpecPair *)

\* The columns of a row other than status and admin_notes.
FrozenColumns ==
  {"id", "created_at", "middle_temple_member", "bmts_member_interest",
   "title", "first_name", "last_name", "company", "po_box", "city",
   "telephone", "email", "practice_track", "payment_method",
   "payment_file_name", "payment_file_path"}

\* C17: in every step every existing row stays, with every column other than
\* status and admin_notes unchanged; a step that changes a row is a status
\* request answered {ok: true} and changes no other row; intake, list, detail
\* and file retrieval change no existing row.
C17_Frame ==
  [][/\ \A j \in DOMAIN rows :
          /\ j \in DOMAIN rows'
          /\ \A c \in FrozenColumns : rows'[j][c] = rows[j][c]
          /\ rows'[j] # rows[j]
               => resp' = Response("status", 200, [ok |-> TRUE])
     /\ Cardinality({j \in DOMAIN rows : rows'[j] # rows[j]}) <= 1
     /\ resp'.op \in {"register", "list", "detail", "payment-proof"}
          => \A j \in DOMAIN rows : rows'[j] = rows[j]]_vars

\* A transition changed one of two registrations: the other still has the
\* status and the notes of its creation.
C17_Witness ==
  /\ resp = Response("status", 200, [ok |-> TRUE])
  /\ \E i, j \in DOMAIN rows :
       /\ i # j
       /\ rows[i].status = "Payment Verified"
       /\ rows[i].admin_notes = "n"
       /\ rows[j].status = "Pending Verification"
       /\ rows[j].admin_notes = ""
       /\ rows[i].email # rows[j].email

\* The results of the intake handler on a request of PairRequests.
pairIntakeResults(req) ==
  IF stores(req[2])
  THEN {registerHandler(Db, req[1], req[2], t, dbOk, TRUE, TRUE,
                        transporter) : t \in {now, now + 1}, dbOk \in BOOLEAN}
  ELSE {registerHandler(Db, req[1], req[2], now, TRUE, TRUE, TRUE,
                        transporter)}

\* C18: every row is keyed by its own id and its stored file is named by that
\* id; no two rows share an id; a successful intake returns an id that no row
\* and no stored file used before, adds exactly the row of that id and the
\* file of that id, and leaves every existing row as it was.
C18_FreshId ==
  /\ \A i \in DOMAIN rows :
       /\ rows[i].id = i
       /\ rows[i].payment_file_path[1] = i
       /\ \A j \in DOMAIN rows : i # j => rows[i].id # rows[j].id
  /\ \A req \in PairRequests : \A r \in pairIntakeResults(req) :
       r.resp.code = 200 =>
         LET id == r.resp.body.registration_id
         IN /\ id \notin usedIds(Db)
            /\ DOMAIN r.rows = DOMAIN rows \cup {id}
            /\ r.rows[id].id = id
            /\ r.rows[id].payment_file_path[1] = id
            /\ r.files = files \cup {r.rows[id].payment_file_path}
            /\ \A j \in DOMAIN rows : r.rows[j] = rows[j]

\* A second intake succeeded: two rows, two ids, two files.
C18_Witness ==
  /\ resp.op = "register"
  /\ resp.code = 200
  /\ Cardinality(DOMAIN rows) = 2
  /\ Cardinality({rows[i].payment_file_path : i \in DOMAIN rows}) = 2

\* C19: no step removes a row; the id a successful intake returns has a row;
\* and in every state the detail request for the id of any row is answered
\* with that row, never with "Not found".
C19_NeverDeleted ==
  /\ [][DOMAIN rows \subseteq DOMAIN rows']_vars
  /\ []((resp.op = "register" /\ resp.code = 200)
           => resp.body.registration_id \in DOMAIN rows)
  /\ [](\A id \in DOMAIN rows :
           detailHandler(Db, AdminCreds, id).resp
             = Response("detail", 200, [row |-> rows[id]]))

\* A registration that was cancelled after another intake is still returned
\* by the detail request.
C19_Witness ==
  /\ resp.op = "detail"
  /\ resp.code = 200
  /\ resp.body.row.status = "Cancelled"
  /\ Cardinality(DOMAIN rows) = 2

\* C20: the list request of an administrator is answered 200 with one
\* summary per row whose status equals the filter (per row when there is no
\* filter), each row once, a row created later never after one created
\* earlier, no summary carrying payment_file_path or admin_notes; the answer
\* to a filter no row matches is the empty sequence.
C20_List ==
  \A status \in allowed \cup {"", "Bogus"} :
    \A order \in listOrders(rows, listed(rows, status)) :
      LET r == listHandler(Db, AdminCreds, status, order)
          out == r.resp.body.rows
          expected == IF status = "" THEN DOMAIN rows
                      ELSE {i \in DOMAIN rows : rows[i].status = status}
      IN /\ r.resp.op = "list"
         /\ r.resp.code = 200
         /\ {out[k].id : k \in 1..Len(out)} = expected
         /\ Len(out) = Cardinality(expected)
         /\ \A k \in 1..Len(out) :
              /\ out[k] = summary(rows[out[k].id])
              /\ DOMAIN out[k] \cap {"payment_file_path", "admin_notes"} = {}
              /\ out[k].status = rows[out[k].id].status
              /\ out[k].created_at = rows[out[k].id].created_at
         /\ \A k, l \in 1..Len(out) :
              k < l => out[k].created_at >= out[l].created_at
         /\ expected = {} => out = <<>>

\* A filtered list returned one of two registrations.
C20_Witness ==
  /\ resp.op = "list"
  /\ resp.code = 200
  /\ Len(resp.body.rows) = 1
  /\ resp.body.rows[1].status = "Payment Verified"
  /\ Cardinality(DOMAIN rows) = 2

\* An unfiltered list returned two registrations, the later one first.
C20_OrderWitness ==
  /\ resp.op = "list"
  /\ resp.code = 200
  /\ Len(resp.body.rows) = 2
  /\ resp.body.rows[1].created_at > resp.body.rows[2].created_at

\* A filter no registration matches was answered with the empty sequence.
C20_EmptyWitness ==
  /\ resp = Response("list", 200, [rows |-> <<>>])
  /\ rows # <<>>

----------------------------------------------------------------------------
(* Credential gate *)

\* The answer of the gate to a request it stops.
AuthenticationRequired(op) ==
  Response(op, 401, [text |-> "Authentication required"])

\* TRUE when result r of operation op is the gate's rejection and nothing
\* else: no row in the response, the table and the files as they were, no
\* notification.
gated(r, op) ==
  /\ r.resp = AuthenticationRequired(op)
  /\ r.rows = rows
  /\ r.files = files
  /\ r.mails = NoMails

\* C21: list, detail, status transition and file retrieval, requested with
\* credentials other than the administrator's (none, or a wrong password),
\* are answered "Authentication required" with status 401, return no
\* registration, change no status or notes and dispatch nothing.
C21_AdminGate ==
  \A creds \in Creds \ {AdminCreds} :
    /\ \A id \in Ids, body \in StatusBodies, ok \in SendOutcomes :
         gated(statusHandler(Db, creds, id, body, ok, transporter), "status")
    /\ \A id \in Ids :
         /\ gated(detailHandler(Db, creds, id), "detail")
         /\ gated(paymentProofHandler(Db, creds, id), "payment-proof")
    /\ \A status \in allowed \cup {"", "Bogus"} :
         \A order \in listOrders(rows, listed(rows, status)) :
           gated(listHandler(Db, creds, status, order), "list")

\* A request for a stored registration was stopped at the gate.
C21_Witness ==
  /\ resp.code = 401
  /\ resp.op \in {"status", "detail", "list", "payment-proof"}
  /\ resp.body = [text |-> "Authentication required"]
  /\ rows # <<>>
  /\ mails = NoMails

\* C21, second part: the steps that change the table or the files are the
\* intake, which takes no credentials, and the status request answered
\* {ok: true}.
C21_OnlyIntakeUngated ==
  [][(rows' # rows \/ files' # files)
       => \/ resp'.op = "register"
          \/ resp' = Response("status", 200, [ok |-> TRUE])]_vars

----------------------------------------------------------------------------
(* Messages and notes of the status route *)

\* With a transporter, setting a registration to a status it does not have
\* sends one message whose subject begins "Registration Confirmed" for
\* Payment Verified and "Action Required" for Payment Rejected and for
\* Awaiting Resubmission, for the status handler H.
ReadmeEmails(H(_, _, _, _, _, _)) ==
  transporter =>
    \A id \in DOMAIN rows, body \in StatusBodies, ok \in SendOutcomes :
      LET r == H(Db, AdminCreds, id, body, ok, transporter)
          first == IF askedStatus(body) = "Payment Verified"
                   THEN <<"Registration", "Confirmed">>
                   ELSE <<"Action", "Required">>
      IN (/\ askedStatus(body) \in {"Payment Verified", "Payment Rejected",
                                    "Awaiting Resubmission"}
          /\ askedStatus(body) # rows[id].status)
           => /\ Len(r.mails) = 1
              /\ r.mails[1].to = rows[id].email
              /\ SubSeq(r.mails[1].subject, 1, 2) = first

\* C24: with email configured, setting a registration to Payment Verified
\* sends the "Registration Confirmed" email, and setting it to Payment
\* Rejected or to Awaiting Resubmission sends the "Action Required" email.
C24_ReadmeEmails == ReadmeEmails(statusHandler)

\* C24 for the first variant of the status route.
C24_ReadmeEmailsV1 == ReadmeEmails(statusHandlerV1)

\* C28: a status request of the administrator whose status is outside the
\* seven, empty or absent is answered "Invalid status" for every id, stored or
\* not; "Not found" is the answer only to an allowed status with an id that
\* has no row.
C28_StatusBeforeLookup ==
  \A id \in Ids, body \in StatusBodies, ok \in SendOutcomes :
    LET r == statusHandler(Db, AdminCreds, id, body, ok, transporter)
    IN /\ askedStatus(body) \notin ClaimedStatuses
            => r.resp = Response("status", 400,
                                 [message |-> "Invalid status"])
       /\ r.resp = Response("status", 404, [message |-> "Not found"])
            => /\ askedStatus(body) \in ClaimedStatuses
               /\ id \notin DOMAIN rows

\* With no row stored, so for an id that does not exist, a request was
\* answered "Invalid status".
C28_Witness ==
  /\ resp = Response("status", 400, [message |-> "Invalid status"])
  /\ rows = <<>>

\* The note lines of a message text.
noteLines(text) == {text[i] : i \in {k \in 1..Len(text) : text[k][1] = "note"}}

\* C29: after a status request answered {ok: true} the stored admin_notes
\* are the notes of that request, the empty string when it carries none; the
\* note in the message it dispatches, if any, is the note of the request and
\* never the note stored before, and the rejection, resubmission and generic
\* messages carry the note of the request when it has one.
C29_NotesOfRequest ==
  \A id \in DOMAIN rows, body \in StatusBodies, ok \in SendOutcomes :
    LET r == statusHandler(Db, AdminCreds, id, body, ok, transporter)
    IN r.resp = OkResponse =>
         /\ r.rows[id].admin_notes = askedNotes(body)
         /\ \A k \in 1..Len(r.mails) :
              /\ noteLines(r.mails[k].text) \subseteq
                   {<<"note", askedNotes(body)>>}
              /\ askedNotes(body) = "" => noteLines(r.mails[k].text) = {}
              /\ (askedNotes(body) # ""
                  /\ askedStatus(body) # "Payment Verified")
                   => noteLines(r.mails[k].text)
                        = {<<"note", askedNotes(body)>>}

\* A transition without notes was answered {ok: true}: the row has no notes
\* and the rejection message has no note line.
C29_Witness ==
  /\ resp = OkResponse
  /\ Len(mails) = 1
  /\ noteLines(mails[1].text) = {}
  /\ \E id \in DOMAIN rows :
       /\ rows[id].status = "Payment Rejected"
       /\ rows[id].admin_notes = ""

----------------------------------------------------------------------------
(* Templates, file retrieval, precedence of rejections *)

\* The six templates applied to registration row, over the notes and the
\* statuses a request may carry.
templateTexts(row) ==
  {generateRegistrationConfirmationEmail(row).text,
   generateAdminNotificationEmail(row).text,
   generatePaymentVerifiedEmail(row).text}
    \cup {generatePaymentRejectedEmail(row, n).text : n \in {"", "n"}}
    \cup {generateAwaitingResubmissionEmail(row, n).text : n \in {"", "n"}}
    \cup {generateStatusChangeNotificationEmail(row, new, old, n).text :
            new \in allowed, old \in allowed, n \in {"", "n"}}

\* The optional column a line label belongs to; "none" for any other label.
optionalOf(label) ==
  IF label \in {"Firm/Company: ", "Company: "} THEN "company"
  ELSE IF label = "City: " THEN "city"
  ELSE IF label = "PO Box: " THEN "po_box"
  ELSE "none"

\* C25: for every stored registration, the text of each of the six templates
\* has the line of the registration id, and has no line of company, city or
\* PO box when that column of the registration is empty.
C25_TemplateLines ==
  \A id \in DOMAIN rows : \A text \in templateTexts(rows[id]) :
    /\ \E k \in 1..Len(text) : text[k] = <<"Registration ID: ", rows[id].id>>
    /\ \A k \in 1..Len(text) :
         optionalOf(text[k][1]) # "none"
           => /\ rows[id][optionalOf(text[k][1])] # <<>>
              /\ text[k] = <<text[k][1], rows[id][optionalOf(text[k][1])]>>

\* An intake without company, city and PO box dispatched its two messages:
\* both name the id, none has a line of an optional field.
C25_Witness ==
  /\ resp.op = "register"
  /\ resp.code = 200
  /\ rows[resp.body.registration_id].company = <<>>
  /\ rows[resp.body.registration_id].city = <<>>
  /\ Len(mails) = 2
  /\ \A m \in 1..2 :
       /\ \E k \in 1..Len(mails[m].text) :
            mails[m].text[k]
              = <<"Registration ID: ", resp.body.registration_id>>
       /\ \A k \in 1..Len(mails[m].text) :
            optionalOf(mails[m].text[k][1]) = "none"

\* C26: the file request of an administrator changes nothing; it is answered
\* with the stored file under payment_file_name when the id has a row and the
\* row's file is in the upload directory, and with a 404 when the id has no
\* row and when the row's file is not in the upload directory.
C26_FileRetrieval ==
  \A id \in PairIds :
    LET r == paymentProofHandler(Db, AdminCreds, id)
    IN /\ r.rows = rows /\ r.files = files /\ r.mails = NoMails
       /\ r.resp.op = "payment-proof"
       /\ (id \in DOMAIN rows /\ rows[id].payment_file_path \in files)
            => /\ r.resp.code = 200
               /\ r.resp.body = [download |-> rows[id].payment_file_path,
                                 filename |-> rows[id].payment_file_name]
               /\ rows[id].payment_file_name = GoodFile.originalname
       /\ id \notin DOMAIN rows
            => r.resp.code = 404 /\ "download" \notin DOMAIN r.resp.body
       /\ (id \in DOMAIN rows /\ rows[id].payment_file_path \notin files)
            => r.resp.code = 404 /\ "download" \notin DOMAIN r.resp.body

\* The file of a stored registration was asked for after it had gone.
C26_Witness ==
  /\ resp = Response("payment-proof", 404, [text |-> "File missing"])
  /\ \E id \in DOMAIN rows : rows[id].payment_file_path \notin files

\* The file of a stored registration was returned under its original name.
C26_DownloadWitness ==
  /\ resp.op = "payment-proof"
  /\ resp.code = 200
  /\ resp.body.filename = GoodFile.originalname
  /\ resp.body.download \in files

\* The reason an intake response gives: its message or its error.
reasonOf(r) ==
  IF "message" \in DOMAIN r.resp.body THEN r.resp.body.message
  ELSE IF "error" \in DOMAIN r.resp.body THEN r.resp.body.error
  ELSE "none"

\* C27: an intake with a validation failure gives one reason, which depends
\* on the request alone: that of the file type or the size when the upload
\* refuses the file, else "Payment proof is required." when there is no file,
\* else "Please complete all required fields."; the state of the server and
\* the outcomes of storage and relay do not change it.
C27_RejectionPrecedence ==
  \A req \in IntakeRequests : \A r \in intakeResults(req) :
    LET fs == failures(req)
    IN fs # {} =>
         /\ fs \cap {"type", "size"} # {} =>
              reasonOf(r) \in
                {"Invalid file type. Please upload PDF, JPG, JPEG, or PNG.",
                 "File too large"}
         /\ ("type" \in fs /\ "size" \notin fs) =>
              reasonOf(r) = ClaimedMessage["type"]
         /\ ("size" \in fs /\ "type" \notin fs) =>
              reasonOf(r) = "File too large"
         /\ "file" \in fs => reasonOf(r) = ClaimedMessage["file"]
         /\ fs = {"field"} => reasonOf(r) = ClaimedMessage["field"]
         /\ "registration_id" \notin DOMAIN r.resp.body

\* An intake without a file was answered "Payment proof is required." on a
\* server that already holds a registration.
C27_Witness ==
  /\ resp = Response("register", 400,
                     [message |-> "Payment proof is required."])
  /\ rows # <<>>

----------------------------------------------------------------------------
(* Requests in service at the same time, under SpecConc *)

\* The positions of history that satisfy Test.
positions(Test(_)) == {k \in 1..Len(history) : Test(history[k])}

\* The updates of registration id, in the order they were committed.
updatesOf(id) ==
  SelectSeq(history, LAMBDA e : e.ev = "update" /\ e.id = id)

\* C22: the status and admin_notes stored for a registration are the pair of
\* the request whose UPDATE was committed last, or the pair of the creation
\* when no UPDATE was committed, whatever requests are in service.
C22_LastWriteWins ==
  \A id \in DOMAIN rows :
    LET ups == updatesOf(id)
    IN <<rows[id].status, rows[id].admin_notes>> =
         IF ups = <<>> THEN <<"Pending Verification", "">>
         ELSE <<ups[Len(ups)].status, ups[Len(ups)].notes>>

\* A request committed its UPDATE while another, which had committed a
\* different pair on the same registration, was still in service.
C22_Witness ==
  \E p \in Procs, i, j \in 1..Len(history) :
    /\ i < j
    /\ history[i].ev = "update" /\ history[i].p = p
    /\ history[j].ev = "update" /\ history[j].p # p
    /\ history[j].id = history[i].id
    /\ history[j].notes # history[i].notes
    /\ inflight[p].pc = "transition"
    /\ rows[history[j].id].admin_notes = history[j].notes

\* C23: every confirmation follows the INSERT of its registration, every
\* alert follows the confirmation, the response with the id follows exactly
\* one confirmation and one alert, the registration of every intake message
\* is in the table, the two messages of the response go to the applicant's
\* email and to the owner, and a rejected intake hands nothing to sendEmail.
C23_IntakeOrder ==
  /\ \A k \in 1..Len(history) :
       LET e == history[k]
           before(ev, kind) ==
             {j \in 1..(k - 1) :
                /\ history[j].ev = ev /\ history[j].id = e.id
                /\ history[j].status = kind}
       IN /\ (e.ev = "mail" /\ e.status = "confirmation")
               => /\ before("insert", "Pending Verification") # {}
                  /\ e.id \in DOMAIN rows
          /\ (e.ev = "mail" /\ e.status = "alert")
               => /\ before("mail", "confirmation") # {}
                  /\ e.id \in DOMAIN rows
          /\ (e.ev = "respond" /\ e.status = "registered")
               => /\ Cardinality(before("insert", "Pending Verification")) = 1
                  /\ Cardinality(before("mail", "confirmation")) = 1
                  /\ Cardinality(before("mail", "alert")) = 1
                  /\ Cardinality({j \in 1..Len(history) :
                        /\ history[j].ev = "mail" /\ history[j].p = e.p}) = 2
          /\ (e.ev = "respond" /\ e.status = "rejected")
               => \A j \in 1..Len(history) :
                    history[j].p = e.p => history[j].ev = "respond"
  /\ (resp.op = "register" /\ resp.code = 200)
       => /\ Len(mails) = 2
          /\ mails[1].to = rows[resp.body.registration_id].email
          /\ mails[2].to = OwnerEmail
  /\ (resp.op = "register" /\ resp.code # 200) => mails = NoMails

\* An intake answered with its id after a status request had been served on
\* the new registration between its INSERT and its response.
C23_Witness ==
  /\ resp.op = "register"
  /\ resp.code = 200
  /\ Len(mails) = 2
  /\ history[Len(history)].ev = "respond"
  /\ history[Len(history)].status = "registered"
  /\ \E k \in 1..Len(history) :
       history[k].ev = "update" /\ history[k].id = resp.body.registration_id

\* C30: every committed UPDATE was decided on the status the table held
\* right before it, and for every registration the transition messages
\* handed to sendEmail are as many as the committed UPDATEs that changed its
\* stored status.
C30_ReadAndUpdateAtomic ==
  /\ \A k \in 1..Len(history) :
       history[k].ev = "update" => history[k].seen = history[k].stored
  /\ \A id \in ConcIds :
       Cardinality(positions(LAMBDA e :
           e.ev = "mail" /\ e.status = "transition" /\ e.id = id))
         = Cardinality(positions(LAMBDA e :
             e.ev = "update" /\ e.id = id /\ e.stored # e.status))

\* While a request that changed the status was still in service, another
\* asked for the same status: its UPDATE changed nothing and it handed no
\* message to sendEmail.
C30_Witness ==
  \E p \in Procs, i, j \in 1..Len(history) :
    /\ i < j
    /\ history[i].ev = "update" /\ history[i].p = p
    /\ history[i].stored # history[i].status
    /\ inflight[p].pc = "transition"
    /\ history[j].ev = "update" /\ history[j].p # p
    /\ history[j].id = history[i].id
    /\ history[j].stored = history[j].status
    /\ Cardinality(positions(LAMBDA e :
          e.ev = "mail" /\ e.status = "transition")) = 1

====
